---- MODULE Spec2Model ----
(***************************************************************************)
(* planetgen: the icosahedron mesh of src/planetgen/src/geometry.rs and    *)
(* the vertex placement of src/planetgen/src/icosphere.rs.                 *)
(*                                                                         *)
(* f32 values are fixed-point integers in units of 1/Scale, and a product  *)
(* is rounded to the nearest unit (Mul).  sin and cos are only ever taken  *)
(* of atan(0.5) and of whole multiples of long_angle = 36 degrees, so they *)
(* are tables of the values rounded to 1/Scale.                            *)
(*                                                                         *)
(* An Rc<Vert> is the address of a Vert in heap; Rc::clone copies the      *)
(* address.  An Rc<Edge> is the slot of the edge in the edges array: edges *)
(* are never written after construction.  Arrays keep the source's 0-based *)
(* indices; a Vec that is returned is a sequence, slot i at position i+1.  *)
(***************************************************************************)
EXTENDS Integers, Sequences, FiniteSets, TLC

VARIABLES pc, ico, heap, sphere, call, ret, repeat, writes, last

vars == <<pc, ico, heap, sphere, call, ret, repeat, writes, last>>

(* ------------------------------ bounds -------------------------------- *)

\* radii tried at construction: n * RadiusStep for n in -MaxRadius..MaxRadius
MaxRadius == 10
\* position writes in one behaviour
MaxWrites == 2

Scale == 10 * 10 * 10
RadiusStep == Scale \div 2
Radii == {n * RadiusStep : n \in (0 - MaxRadius)..MaxRadius}
\* the point written by set_coords and the value written by set_x, set_y, set_z
Points == {<<0 - 2 * Scale, Scale \div 4, 4 * Scale>>}
Vals == {(3 * Scale) \div 2}

(* --------------------------- f32 arithmetic --------------------------- *)

Abs(a) == IF a < 0 THEN 0 - a ELSE a

Mul(a, b) == (a * b + Scale \div 2) \div Scale

\* f32::atan(0.5).sin() and .cos()
SinLat == 447
CosLat == 894

CosTable == <<809, 1000, 809, 309, -309, -809, -1000, -809, -309, 309>>
SinTable == <<-588, 0, 588, 951, 951, 588, 0, -588, -951, -951>>

\* (k as f32 * long_angle).cos() and .sin(), k in -1..8
CosLong(k) == CosTable[k + 2]
SinLong(k) == SinTable[k + 2]

(* -------------------------------- Vert -------------------------------- *)

VertNew(index, x, y, z) == [index |-> index, x |-> x, y |-> y, z |-> z]

set_coords(v, x, y, z) == [v EXCEPT !.x = x, !.y = y, !.z = z]
\* set_x storing into the wrong cell
set_x_into_y(v, x) == [v EXCEPT !.y = x]

set_x(v, x) == [v EXCEPT !.x = x]
set_y(v, y) == [v EXCEPT !.y = y]
set_z(v, z) == [v EXCEPT !.z = z]
get_index(v) == v.index
get_x(v) == v.x
get_y(v) == v.y
get_z(v) == v.z

(* ------------------------- Icosahedron::new --------------------------- *)

NVerts == 12
NEdges == 30
NFaces == 20

\* the ring height taken with cos instead of sin
VertexAtCosHeight(i, radius) ==
    LET top_ring_height == Mul(radius, CosLat)
        top_ring_radius == Mul(radius, CosLat)
    IN  CASE i = 0 -> VertNew(i, 0, 0, radius)
          [] i = 11 -> VertNew(i, 0, 0, 0 - radius)
          [] i \in 1..5 ->
                VertNew(i,
                        Mul(top_ring_radius, CosLong((i - 1) * 2)),
                        Mul(top_ring_radius, SinLong((i - 1) * 2)),
                        top_ring_height)
          [] i \in 6..10 ->
                VertNew(i,
                        Mul(top_ring_radius, CosLong((i - 6) * 2 - 1)),
                        Mul(top_ring_radius, SinLong((i - 6) * 2 - 1)),
                        0 - top_ring_height)

VertexAt(i, radius) ==
    LET top_ring_height == Mul(radius, SinLat)
        top_ring_radius == Mul(radius, CosLat)
    IN  CASE i = 0 -> VertNew(i, 0, 0, radius)
          [] i = 11 -> VertNew(i, 0, 0, 0 - radius)
          [] i \in 1..5 ->
                VertNew(i,
                        Mul(top_ring_radius, CosLong((i - 1) * 2)),
                        Mul(top_ring_radius, SinLong((i - 1) * 2)),
                        top_ring_height)
          [] i \in 6..10 ->
                VertNew(i,
                        Mul(top_ring_radius, CosLong((i - 6) * 2 - 1)),
                        Mul(top_ring_radius, SinLong((i - 6) * 2 - 1)),
                        0 - top_ring_height)

\* the endpoints given to Edge::new for edge i
EdgeTable(i) == <<0, 1>>

CornerTable ==
    << <<2, 1, 0>>, <<3, 2, 0>>, <<4, 3, 0>>, <<5, 4, 0>>, <<1, 5, 0>>,
       <<7, 6, 1>>, <<7, 1, 2>>, <<8, 7, 2>>, <<8, 2, 3>>, <<9, 8, 3>>,
       <<9, 3, 4>>, <<10, 9, 4>>, <<10, 4, 5>>, <<6, 10, 5>>, <<6, 5, 1>>,
       <<6, 7, 11>>, <<7, 8, 11>>, <<8, 9, 11>>, <<9, 10, 11>>, <<10, 6, 11>> >>

SideTable ==
    << <<0, 1, 5>>, <<1, 2, 6>>, <<2, 3, 7>>, <<3, 4, 8>>, <<4, 0, 9>>,
       <<20, 10, 11>>, <<5, 11, 12>>, <<21, 12, 13>>, <<6, 13, 14>>, <<22, 14, 15>>,
       <<7, 15, 16>>, <<23, 16, 17>>, <<8, 17, 18>>, <<24, 18, 19>>, <<9, 19, 10>>,
       <<25, 26, 20>>, <<26, 27, 21>>, <<27, 28, 22>>, <<28, 29, 23>>, <<29, 25, 24>> >>

\* face 5 given corner 2 where the table has 1
FaceCornersWrongCorner(i) == IF i = 5 THEN <<7, 6, 2>> ELSE CornerTable[i + 1]

\* face 0 wound the other way
FaceCornersFlipped(i) == IF i = 0 THEN <<1, 2, 0>> ELSE CornerTable[i + 1]

\* the corners and sides given to Face::new for face i
FaceCorners(i) == CornerTable[i + 1]
FaceSides(i) == SideTable[i + 1]

EdgeNew(verts, endpoints) ==
    [endpoint |-> <<verts[endpoints[1]], verts[endpoints[2]]>>]

FaceNew(verts, edges, corners, sides) ==
    [corner |-> <<verts[corners[1]], verts[corners[2]], verts[corners[3]]>>,
     edge |-> <<edges[sides[1]], edges[sides[2]], edges[sides[3]]>>]

\* the Vert objects allocated by the Rc::new calls, at addresses 0..11
NewHeap(radius) == [a \in 0..(NVerts - 1) |-> VertexAt(a, radius)]

IcosahedronNew(radius) ==
    LET verts == [i \in 0..(NVerts - 1) |-> i]
        edgeRc == [i \in 0..(NEdges - 1) |-> i]
    IN  [radius |-> radius,
         verts |-> verts,
         edges |-> [i \in 0..(NEdges - 1) |-> EdgeNew(verts, EdgeTable(i))],
         faces |-> [i \in 0..(NFaces - 1) |->
                        FaceNew(verts, edgeRc, FaceCorners(i), FaceSides(i))]]

DefaultRadius == 5 * Scale

NoMesh == [radius |-> 0, verts |-> <<>>, edges |-> <<>>, faces |-> <<>>]

(* -------------------------- buffer extraction ------------------------- *)

\* get_y read twice
GraphicsVertexYY(v) ==
    [position |-> <<get_x(v), get_y(v), get_y(v)>>,
     color |-> <<Scale, Scale, Scale>>]

GraphicsVertex(v) ==
    [position |-> <<get_x(v), get_y(v), get_z(v)>>,
     color |-> <<Scale, Scale, Scale>>]

\* the positions of construction, not the cells' current values
get_vertex_buffer_snapshot(m, h) ==
    [i \in 1..NVerts |-> GraphicsVertex(VertexAt(h[m.verts[i - 1]].index, m.radius))]

get_vertex_buffer(m, h) ==
    [i \in 1..NVerts |-> GraphicsVertex(h[m.verts[i - 1]])]

\* the corners of each face emitted last to first
get_index_buffer_reversed(m, h) ==
    [j \in 1..(3 * NFaces) |->
        get_index(h[m.faces[(j - 1) \div 3].corner[3 - ((j - 1) % 3)]])]

get_index_buffer(m, h) ==
    [j \in 1..(3 * NFaces) |->
        get_index(h[m.faces[(j - 1) \div 3].corner[((j - 1) % 3) + 1]])]

(* --------------------------- Icosphere::new --------------------------- *)

PointAt(i, radius) ==
    LET top_ring_height == Mul(radius, SinLat)
        top_ring_radius == Mul(radius, CosLat)
        pos == CASE i = 0 -> <<0, 0, radius>>
                 [] i = 11 -> <<0, 0, 0 - radius>>
                 [] i \in 1..5 ->
                       <<Mul(top_ring_radius, CosLong((i - 1) * 2)),
                         Mul(top_ring_radius, SinLong((i - 1) * 2)),
                         top_ring_height>>
                 [] i \in 6..10 ->
                       <<Mul(top_ring_radius, CosLong((i - 6) * 2 - 1)),
                         Mul(top_ring_radius, SinLong((i - 6) * 2 - 1)),
                         0 - top_ring_height>>
    IN  [index |-> i, pos |-> pos]

IcosphereVertices(radius) == [i \in 1..NVerts |-> PointAt(i - 1, radius)]

(* ------------------------------ history ------------------------------- *)

Position(v) == <<v.x, v.y, v.z>>

\* every Rc<Vert> the mesh holds: the array's, the edges' and the faces'
Handles(m) ==
    {m.verts[i] : i \in DOMAIN m.verts}
        \cup {m.edges[e].endpoint[k] : e \in DOMAIN m.edges, k \in 1..2}
        \cup {m.faces[f].corner[k] : f \in DOMAIN m.faces, k \in 1..3}

Call(name, self, args) == [name |-> name, self |-> self, args |-> args]

(* ------------------------------ actions ------------------------------- *)

InitStart ==
    /\ pc = "start"
    /\ ico = NoMesh
    /\ heap = <<>>
    /\ sphere = <<>>
    /\ call = Call("none", -1, <<>>)
    /\ ret = <<>>
    /\ repeat = FALSE
    /\ writes = 0
    /\ last = <<>>

\* Icosahedron::default()
InitDefault ==
    /\ pc = "Icosahedron"
    /\ ico = IcosahedronNew(DefaultRadius)
    /\ heap = NewHeap(DefaultRadius)
    /\ sphere = <<>>
    /\ call = Call("Icosahedron::default", -1, <<>>)
    /\ ret = <<>>
    /\ repeat = FALSE
    /\ writes = 0
    /\ last = [i \in 0..(NVerts - 1) |-> Position(NewHeap(DefaultRadius)[i])]

NewIcosahedron(radius) ==
    /\ pc = "start"
    /\ pc' = "Icosahedron"
    /\ ico' = IcosahedronNew(radius)
    /\ heap' = NewHeap(radius)
    /\ call' = Call("Icosahedron::new", -1, <<radius>>)
    /\ last' = [i \in 0..(NVerts - 1) |-> Position(NewHeap(radius)[i])]
    /\ UNCHANGED <<sphere, ret, repeat, writes>>

NewIcosphere(radius) ==
    /\ pc = "start"
    /\ call' = Call("Icosphere::new", -1, <<radius>>)
    /\ IF radius > 0
          THEN /\ pc' = "Icosphere"
               /\ sphere' = IcosphereVertices(radius)
          ELSE /\ pc' = "panic"
               /\ sphere' = sphere
    /\ UNCHANGED <<ico, heap, ret, repeat, writes, last>>

Write(name, rc, args, v, p) ==
    /\ pc = "Icosahedron"
    /\ writes < MaxWrites
    /\ heap' = [heap EXCEPT ![rc] = v]
    /\ call' = Call(name, rc, args)
    /\ ret' = <<>>
    /\ repeat' = FALSE
    /\ writes' = writes + 1
    /\ last' = [last EXCEPT ![heap[rc].index] = p]
    /\ UNCHANGED <<pc, ico, sphere>>

SetCoords(rc, x, y, z) ==
    Write("set_coords", rc, <<x, y, z>>, set_coords(heap[rc], x, y, z), <<x, y, z>>)

SetX(rc, x) ==
    Write("set_x", rc, <<x>>, set_x(heap[rc], x),
          [last[heap[rc].index] EXCEPT ![1] = x])

SetY(rc, y) ==
    Write("set_y", rc, <<y>>, set_y(heap[rc], y),
          [last[heap[rc].index] EXCEPT ![2] = y])

SetZ(rc, z) ==
    Write("set_z", rc, <<z>>, set_z(heap[rc], z),
          [last[heap[rc].index] EXCEPT ![3] = z])

Extract(name, buffer) ==
    /\ pc = "Icosahedron"
    /\ call' = Call(name, -1, <<>>)
    /\ ret' = buffer
    /\ repeat' = (call.name = name)
    /\ UNCHANGED <<pc, ico, heap, sphere, writes, last>>

\* the getters emptying the cells they read (RefCell::take for borrow)
GetVertexBufferTaking ==
    /\ pc = "Icosahedron"
    /\ call' = Call("get_vertex_buffer", -1, <<>>)
    /\ ret' = get_vertex_buffer(ico, heap)
    /\ repeat' = (call.name = "get_vertex_buffer")
    /\ heap' = [a \in DOMAIN heap |-> set_coords(heap[a], 0, 0, 0)]
    /\ UNCHANGED <<pc, ico, sphere, writes, last>>

GetVertexBuffer == Extract("get_vertex_buffer", get_vertex_buffer(ico, heap))

GetIndexBuffer == Extract("get_index_buffer", get_index_buffer(ico, heap))

Next ==
    \/ \E rc \in Handles(ico), p \in Points : SetCoords(rc, p[1], p[2], p[3])
    \/ \E rc \in Handles(ico), x \in Vals : SetX(rc, x)
    \/ \E rc \in Handles(ico), y \in Vals : SetY(rc, y)
    \/ \E rc \in Handles(ico), z \in Vals : SetZ(rc, z)
    \/ GetVertexBuffer
    \/ GetIndexBuffer

\* a default mesh, then position writes and buffer extractions in any order
Spec == InitDefault /\ [][Next]_vars

NextNew ==
    \/ \E radius \in Radii : NewIcosahedron(radius)
    \/ \E radius \in Radii : NewIcosphere(radius)
    \/ GetVertexBuffer
    \/ GetIndexBuffer

\* one construction with any radius, then buffer extractions
SpecNew == InitStart /\ [][NextNew]_vars

(* ------------------------------- claims ------------------------------- *)

VertIds == 0..(NVerts - 1)
FaceIds == 0..(NFaces - 1)
Built == pc = "Icosahedron"

\* the vertex index a face corner or an edge endpoint reads through its Rc
CornerIndex(f, k) == get_index(heap[ico.faces[f].corner[k]])
EndpointIndex(e, k) == get_index(heap[ico.edges[e].endpoint[k]])
EndpointSet(e) == {EndpointIndex(e, 1), EndpointIndex(e, 2)}

\* C1: in every constructed mesh, the endpoint sets of the three edges a face
\* references are exactly the three pairs {a,b}, {b,c}, {a,c} of its corners.
C1_FaceEdgesJoinItsCorners ==
    Built =>
        \A f \in FaceIds :
            LET a == CornerIndex(f, 1)
                b == CornerIndex(f, 2)
                c == CornerIndex(f, 3)
            IN  {EndpointSet(ico.faces[f].edge[k]) : k \in 1..3}
                    = {{a, b}, {b, c}, {a, c}}

\* C2: a construction with radius <= 0 fails with InvalidRadius and returns no
\* mesh; Icosahedron::new returns a mesh only when radius > 0, and
\* Icosphere::new returns its vertices only when radius > 0.
C2_NonPositiveRadiusFails ==
    /\ Built => ico.radius > 0
    /\ (call.name = "Icosahedron::new" /\ call.args[1] <= 0)
            => (pc = "InvalidRadius" /\ DOMAIN ico.verts = {})
    /\ pc = "Icosphere" => call.args[1] > 0
    /\ (call.name = "Icosphere::new" /\ call.args[1] <= 0) => sphere = <<>>

\* C3: after any writes and extractions, a vertex buffer just returned holds at
\* slot i the most recently written position of vertex i (its position of
\* construction if never written), and every face corner and edge endpoint
\* that refers to vertex i reads that position through its own reference.
C3_WritesReachEveryHolder ==
    /\ call.name = "get_vertex_buffer" =>
            \A i \in VertIds : ret[i + 1].position = last[i]
    /\ \A f \in FaceIds, k \in 1..3 :
            Position(heap[ico.faces[f].corner[k]]) = last[FaceCorners(f)[k]]
    /\ \A e \in DOMAIN ico.edges, k \in 1..2 :
            Position(heap[ico.edges[e].endpoint[k]]) = last[EdgeTable(e)[k]]

\* C3 witness: vertex 1 was written twice (set_coords, then set_x) and the
\* vertex buffer was extracted afterwards.
C3_Witness ==
    /\ call.name = "get_vertex_buffer"
    /\ writes >= 2
    /\ ret[2].position = <<(3 * Scale) \div 2, Scale \div 4, 4 * Scale>>

\* C4: get_index_buffer returns 60 values, those at 3k+0, 3k+1, 3k+2 being the
\* indices of face k's first, second and third corner, each in [0, 12).
C4_IndexBufferLayout ==
    (Built /\ call.name = "get_index_buffer") =>
        /\ Len(ret) = 60
        /\ Len(ret) = 3 * Cardinality(DOMAIN ico.faces)
        /\ \A k \in FaceIds, c \in 1..3 : ret[3 * k + c] = CornerIndex(k, c)
        /\ \A j \in 1..Len(ret) : ret[j] >= 0 /\ ret[j] < 12

C4_Witness ==
    /\ Built /\ call.name = "get_index_buffer"
    /\ ret[1] = 2 /\ ret[2] = 1 /\ ret[3] = 0
    /\ ret[58] = 10 /\ ret[59] = 6 /\ ret[60] = 11

\* C5 as claimed: get_vertex_buffer returns 12 records in vertex-index order,
\* each with the vertex's current position, texture coordinates (0, 0) and
\* color (1, 1, 1).
C5_RecordsCarryTexCoords ==
    call.name = "get_vertex_buffer" =>
        /\ Len(ret) = 12
        /\ \A i \in VertIds :
            /\ get_index(heap[ico.verts[i]]) = i
            /\ ret[i + 1].position = Position(heap[ico.verts[i]])
            /\ "tex_coords" \in DOMAIN ret[i + 1]
            /\ ret[i + 1].tex_coords = <<0, 0>>
            /\ ret[i + 1].color = <<Scale, Scale, Scale>>

\* C5 amended: get_vertex_buffer returns 12 records in vertex-index order, the
\* record at slot i holding the current position of the vertex whose stored
\* index is i and the color (1, 1, 1), and nothing else: a record has no
\* texture coordinates.
C5_VertexBufferLayout ==
    call.name = "get_vertex_buffer" =>
        /\ Len(ret) = 12
        /\ \A i \in VertIds :
            /\ get_index(heap[ico.verts[i]]) = i
            /\ ret[i + 1].position = Position(heap[ico.verts[i]])
            /\ ret[i + 1].position = last[i]
            /\ ret[i + 1].color = <<Scale, Scale, Scale>>
            /\ DOMAIN ret[i + 1] = {"position", "color"}

C5_Witness ==
    /\ call.name = "get_vertex_buffer"
    /\ writes >= 1
    /\ ret[1].position = <<0 - 2 * Scale, Scale \div 4, 4 * Scale>>
    /\ ret[12].position = <<0, 0, 0 - DefaultRadius>>

\* C6: in the index buffer every vertex index 0..11 appears, and every vertex
\* is a corner of exactly 5 of the 20 faces.
C6_EveryVertexInFiveFaces ==
    (Built /\ call.name = "get_index_buffer") =>
        \A v \in VertIds :
            /\ \E j \in 1..Len(ret) : ret[j] = v
            /\ Cardinality({f \in FaceIds :
                    v \in {ret[3 * f + 1], ret[3 * f + 2], ret[3 * f + 3]}}) = 5
            /\ Cardinality({f \in FaceIds :
                    v \in {CornerIndex(f, 1), CornerIndex(f, 2), CornerIndex(f, 3)}}) = 5

C6_Witness ==
    /\ Built /\ call.name = "get_index_buffer"
    /\ Cardinality({j \in 1..Len(ret) : ret[j] = 1}) = 5
    /\ Cardinality({j \in 1..Len(ret) : ret[j] = 11}) = 5

\* C7: an extraction changes no vertex position or index, no edge and no face,
\* and an extraction that directly follows the same extraction returns the
\* same sequence.
C7_ExtractionIsPure ==
    [][call'.name \in {"get_vertex_buffer", "get_index_buffer"} =>
            /\ heap' = heap
            /\ ico' = ico
            /\ call.name = call'.name => ret' = ret]_vars

\* C7 witness: get_vertex_buffer called twice in a row on a mesh whose vertex 0
\* was moved.
C7_Witness ==
    /\ call.name = "get_vertex_buffer" /\ repeat
    /\ writes >= 1
    /\ ret[1].position # <<0, 0, DefaultRadius>>

\* what get_index_buffer returns on the mesh of Icosahedron::default()
IndexBufferAtConstruction ==
    get_index_buffer(IcosahedronNew(DefaultRadius), NewHeap(DefaultRadius))

\* C8: no write and no extraction changes the counts (12, 30, 20), a vertex's
\* stored index, an edge's endpoints, a face's corners or edges, or what
\* get_index_buffer returns; a write to a vertex stores the written
\* coordinates in it and leaves its other coordinates and every other vertex
\* as they were.
C8_TopologyIsFrozen ==
    [][/\ ico' = ico
       /\ Cardinality(DOMAIN ico'.verts) = 12
       /\ Cardinality(DOMAIN ico'.edges) = 30
       /\ Cardinality(DOMAIN ico'.faces) = 20
       /\ DOMAIN heap' = DOMAIN heap
       /\ \A a \in DOMAIN heap : get_index(heap'[a]) = get_index(heap[a])
       /\ get_index_buffer(ico', heap') = IndexBufferAtConstruction
       /\ \A a \in DOMAIN heap : a # call'.self => heap'[a] = heap[a]
       /\ call'.name = "set_coords" =>
            Position(heap'[call'.self]) = call'.args
       /\ call'.name = "set_x" =>
            Position(heap'[call'.self])
                = <<call'.args[1], heap[call'.self].y, heap[call'.self].z>>
       /\ call'.name = "set_y" =>
            Position(heap'[call'.self])
                = <<heap[call'.self].x, call'.args[1], heap[call'.self].z>>
       /\ call'.name = "set_z" =>
            Position(heap'[call'.self])
                = <<heap[call'.self].x, heap[call'.self].y, call'.args[1]>>]_vars

\* C8 witness: two writes, the last a set_x on vertex 3, and the vertex moved.
C8_Witness ==
    /\ writes >= 2
    /\ call.name = "set_x" /\ call.self = 3
    /\ Position(heap[3]) # Position(VertexAt(3, DefaultRadius))
    /\ heap[3].x = (3 * Scale) \div 2

\* |p|^2 within half a percent of radius^2: the tolerance of positions held to
\* three decimal places
OnSphere(p, radius) ==
    Abs(p[1] * p[1] + p[2] * p[2] + p[3] * p[3] - radius * radius)
        <= (radius * radius) \div 200

\* C9: for radius > 0 each of the 12 positions produced by Icosahedron::new
\* and by Icosphere::new has norm radius within tolerance, vertex 0 being
\* (0, 0, radius) and vertex 11 (0, 0, -radius).
C9_VerticesOnSphere ==
    /\ (Built /\ ico.radius > 0) =>
        /\ \A i \in VertIds : OnSphere(Position(heap[ico.verts[i]]), ico.radius)
        /\ Position(heap[ico.verts[0]]) = <<0, 0, ico.radius>>
        /\ Position(heap[ico.verts[11]]) = <<0, 0, 0 - ico.radius>>
    /\ pc = "Icosphere" =>
        /\ Len(sphere) = 12
        /\ \A i \in VertIds : OnSphere(sphere[i + 1].pos, call.args[1])
        /\ sphere[1].pos = <<0, 0, call.args[1]>>
        /\ sphere[12].pos = <<0, 0, 0 - call.args[1]>>

\* C9 witness: radius 5.0, vertex 1 at (4.470, 0, 2.235).
C9_Witness ==
    /\ Built /\ ico.radius = DefaultRadius
    /\ Position(heap[ico.verts[1]]) = <<4470, 0, 2235>>
    /\ Position(heap[ico.verts[11]]) = <<0, 0, 0 - DefaultRadius>>

DirectedPairs(f) ==
    {<<CornerIndex(f, 1), CornerIndex(f, 2)>>,
     <<CornerIndex(f, 2), CornerIndex(f, 3)>>,
     <<CornerIndex(f, 3), CornerIndex(f, 1)>>}

\* C10: the corners of each face are pairwise distinct; no directed pair
\* (c0,c1), (c1,c2), (c2,c0) occurs in two faces, and the reverse of every
\* pair that occurs is in exactly one other face.
C10_ConsistentWinding ==
    Built =>
        \A f \in FaceIds :
            /\ Cardinality({CornerIndex(f, 1), CornerIndex(f, 2), CornerIndex(f, 3)}) = 3
            /\ \A p \in DirectedPairs(f) :
                /\ \A g \in FaceIds \ {f} : p \notin DirectedPairs(g)
                /\ Cardinality({g \in FaceIds \ {f} :
                        <<p[2], p[1]>> \in DirectedPairs(g)}) = 1

\* C10 witness: face 0 holds (2,1), face 6 holds its reverse (1,2).
C10_Witness ==
    /\ Built
    /\ <<2, 1>> \in DirectedPairs(0)
    /\ <<1, 2>> \in DirectedPairs(6)

====
